---- MODULE Spec2Model ----
(***************************************************************************)
(* A model of src/main.rs of the search engine: the `index` subcommand     *)
(* (tfi_folder, parse_xml_file, save_tfi), the `search` subcommand         *)
(* (check_index) and the `serve` subcommand (entry, serve_request, tf,     *)
(* idf).                                                                   *)
(*                                                                         *)
(* Text is a sequence of one-character strings.  A Term is a sequence of   *)
(* upper-cased characters.  A TF table is a function from the Terms it     *)
(* holds to their counts; a TFI is a function from paths to TF tables.     *)
(*                                                                         *)
(* f32 values are modelled as records: a finite value is the exact         *)
(* rational n / d in units of 10^-6 (log10 is tabulated to six decimals),  *)
(* a NaN carries its sign bit, which f32::total_cmp orders by.             *)
(***************************************************************************)
EXTENDS Integers, Sequences, FiniteSets, TLC

\* ---------------------------------------------------------------- bounds

\* Directory entries the walk of tfi_folder reads in total.
MaxEntries == 3
\* Nesting depth of sub-directories below the indexed folder.
MaxDepth == 1
\* Documents of the index file handed to the serve subcommand.
MaxDocs == 2
\* Requests that arrive at the server.
MaxRequests == 2

\* ------------------------------------------------------------- utilities

Range(f) == {f[x] : x \in DOMAIN f}

Perms(S) == {p \in [1..Cardinality(S) -> S] : Range(p) = S}

Reverse(s) == [i \in 1..Len(s) |-> s[Len(s) + 1 - i]]

\* ------------------------------------------------------------ the lexer
\* mod lexer is not part of the source at hand; it follows the tokenizer
\* contract: skip whitespace, a maximal run of digits, a maximal run of
\* alphabetic characters, or one single character; every token upper-cased.

LowerCase == <<"a","b","c","d","e","f","g","h","i","j","k","l","m",
               "n","o","p","q","r","s","t","u","v","w","x","y","z">>

UpperCase == <<"A","B","C","D","E","F","G","H","I","J","K","L","M",
               "N","O","P","Q","R","S","T","U","V","W","X","Y","Z">>

Whitespace == {" "}

Digit == {"0","1","2","3","4","5","6","7","8","9"}

Alphabetic == Range(LowerCase) \cup Range(UpperCase)

to_uppercase(c) ==
    IF c \in Range(LowerCase)
    THEN UpperCase[CHOOSE i \in DOMAIN LowerCase : LowerCase[i] = c]
    ELSE c

RECURSIVE trim_left(_)
trim_left(s) ==
    IF s # <<>> /\ Head(s) \in Whitespace THEN trim_left(Tail(s)) ELSE s

\* Length of the maximal prefix of s whose characters are all in class.
RECURSIVE chop_while(_, _)
chop_while(s, class) ==
    IF s # <<>> /\ Head(s) \in class THEN 1 + chop_while(Tail(s), class) ELSE 0

RECURSIVE Lexer(_)
Lexer(content) ==
    LET s == trim_left(content)
    IN  IF s = <<>> THEN <<>>
        ELSE LET n == IF Head(s) \in Digit THEN chop_while(s, Digit)
                      ELSE IF Head(s) \in Alphabetic THEN chop_while(s, Alphabetic)
                      ELSE 1
             IN  <<[i \in 1..n |-> to_uppercase(s[i])]>>
                     \o Lexer(SubSeq(s, n + 1, Len(s)))

\* ------------------------------------------------------------ the corpus

TheCatSat == <<"t","h","e"," ","c","a","t"," ","s","a","t">>

TheDogRan == <<"t","h","e"," ","d","o","g"," ","r","a","n">>

The == <<"t","h","e">>

\* a"A : an alphabetic run, a quote, the same term in the other case.
QuoteText == <<"a","\"","A">>

\* \7 : a backslash and a digit run.
SlashText == <<"\\","7">>

\* ---------------------------------------------------------- parse_xml_file
\* A file is whether it can be opened and the events the XML reader yields
\* for it: Characters(text), any other event, or an error.

Characters(text) == [ev |-> "Characters", text |-> text]

StartElement == [ev |-> "StartElement", text |-> <<>>]

XmlError == [ev |-> "Error", text |-> <<>>]

XmlFile(events) == [open |-> TRUE, events |-> events]

NoFile == [open |-> FALSE, events |-> <<>>]

XmlFiles ==
    { NoFile,
      XmlFile(<<StartElement>>),
      XmlFile(<<StartElement, Characters(QuoteText)>>),
      XmlFile(<<Characters(QuoteText), XmlError>>),
      XmlFile(<<Characters(SlashText), StartElement, Characters(QuoteText)>>) }

Ok(content) == [ok |-> TRUE, content |-> content]

Err == [ok |-> FALSE, content |-> <<>>]

\* lines 26-41: fold the events; the first error returns Err, dropping the
\* content gathered so far; each Characters event appends its text and ' '.
RECURSIVE read_events(_, _)
read_events(events, content) ==
    IF events = <<>> THEN Ok(content)
    ELSE IF Head(events).ev = "Error" THEN Err
    ELSE IF Head(events).ev = "Characters"
         THEN read_events(Tail(events), content \o Head(events).text \o <<" ">>)
         ELSE read_events(Tail(events), content)

parse_xml_file(file) ==
    IF ~file.open THEN Err ELSE read_events(file.events, <<>>)

\* ------------------------------------------------------------- TF and TFI

\* count_term with the first occurrence stored as 0 (the entry is created
\* and the increment forgotten).
count_term_from_zero(tf_table, term) ==
    IF term \in DOMAIN tf_table
    THEN [tf_table EXCEPT ![term] = @ + 1]
    ELSE tf_table @@ (term :> 0)

\* lines 94-98: one more occurrence of term in the table tf.
count_term(tf_table, term) ==
    IF term \in DOMAIN tf_table
    THEN [tf_table EXCEPT ![term] = @ + 1]
    ELSE tf_table @@ (term :> 1)

\* lines 91-99 run to completion: the TF table of a token sequence.
RECURSIVE count_terms(_, _)
count_terms(tf_table, terms) ==
    IF terms = <<>> THEN tf_table
    ELSE count_terms(count_term(tf_table, Head(terms)), Tail(terms))

\* line 104: HashMap::insert.
insert(tfi_map, path, tf_table) ==
    [p \in DOMAIN tfi_map \cup {path} |->
        IF p = path THEN tf_table ELSE tfi_map[p]]

\* skip_file with the failed file indexed under an empty table (the error
\* replaced by empty content).
insert_empty_table(tfi_map, path) == insert(tfi_map, path, <<>>)

\* lines 86-89: what a failed extraction does to the index (continue 'next_file).
skip_file(tfi_map, path) == tfi_map

\* Number of times term occurs in the sequence terms.
RECURSIVE occurrences(_, _)
occurrences(terms, term) ==
    IF terms = <<>> THEN 0
    ELSE (IF Head(terms) = term THEN 1 ELSE 0) + occurrences(Tail(terms), term)

\* ----------------------------------------------------------------- f32

Fin(n, d) == [k |-> "fin", n |-> n, d |-> d]

\* s is the sign bit of the NaN: 1 for a positive NaN, -1 for a negative one.
NaN(s) == [k |-> "nan", n |-> s, d |-> 1]

Zero == Fin(0, 1)

\* 10^6 * log10(i), rounded, for i = 1..8.
Log10Table == <<0, 301030, 477121, 602060, 698970, 778151, 845098, 903090>>

\* f32::total_cmp(a, b) is not Greater.
total_le(a, b) ==
    LET class(x) == IF x.k = "fin" THEN 0 ELSE x.n
    IN  \/ class(a) < class(b)
        \/ class(a) = class(b) /\ (a.k = "nan" \/ a.n * b.d <= b.n * a.d)

\* The IEEE comparisons a >= b, a > b, a = b: false when either is a NaN.
f32_ge(a, b) == a.k = "fin" /\ b.k = "fin" /\ a.n * b.d >= b.n * a.d

f32_gt(a, b) == a.k = "fin" /\ b.k = "fin" /\ a.n * b.d > b.n * a.d

f32_eq(a, b) == a.k = "fin" /\ b.k = "fin" /\ a.n * b.d = b.n * a.d

\* ------------------------------------------------------------- tf and idf

RECURSIVE sum_counts(_, _)
sum_counts(d, terms) ==
    IF terms = {} THEN 0
    ELSE LET t == CHOOSE t \in terms : TRUE
         IN  d[t] + sum_counts(d, terms \ {t})

\* lines 164-169: a / b; 0.0 / 0.0 is a NaN whose sign the platform decides.
tf(t, d, nan_sign) ==
    LET a == IF t \in DOMAIN d THEN d[t] ELSE 0
        b == sum_counts(d, DOMAIN d)
    IN  IF b = 0 THEN NaN(nan_sign) ELSE Fin(a, b)

\* lines 171-175: log10(n / m) in units of 10^-6, m the number of documents
\* holding t plus one.  Only called with n >= 1.
idf(t, d) ==
    LET n == Cardinality(DOMAIN d)
        m == Cardinality({p \in DOMAIN d : t \in DOMAIN d[p]}) + 1
    IN  Log10Table[n] - Log10Table[m]

\* tf * idf, and rank + that (line 196): a NaN absorbs.  A product of -0.0
\* (tf = 0.0, idf < 0) added to a rank gives +0.0 or the rank, so no rank is
\* ever -0.0 and Fin(0, d) stands for +0.0 alone.
f32_scale(x, l) == IF x.k = "nan" THEN x ELSE Fin(x.n * l, x.d)

f32_add(x, y) ==
    IF x.k = "nan" THEN x
    ELSE IF y.k = "nan" THEN y
    ELSE IF x.d = y.d THEN Fin(x.n + y.n, x.d)
    ELSE Fin(x.n * y.d + y.n * x.d, x.d * y.d)

\* lines 194-197: the rank of one document for the query's tokens.
RECURSIVE rank_tokens(_, _, _, _, _)
rank_tokens(rank, tokens, tf_table, tfi_map, nan_sign) ==
    IF tokens = <<>> THEN rank
    ELSE rank_tokens(
            f32_add(rank, f32_scale(tf(Head(tokens), tf_table, nan_sign),
                                    idf(Head(tokens), tfi_map))),
            Tail(tokens), tf_table, tfi_map, nan_sign)

\* lines 192-199: one (path, rank) pair per document, in iteration order.
score_all(tfi_map, order, body, nan_sign) ==
    [i \in 1..Len(order) |->
        [path |-> order[i],
         rank |-> rank_tokens(Zero, Lexer(body), tfi_map[order[i]], tfi_map, nan_sign)]]

\* line 201: slice::sort_by is a stable sort, ascending by total_cmp.
RECURSIVE sort_by(_)
sort_by(result) ==
    IF result = <<>> THEN <<>>
    ELSE LET n == Len(result)
             x == result[n]
             front == sort_by(SubSeq(result, 1, n - 1))
             \* x goes after every element that is not greater than it
             k == Cardinality({i \in 1..(n - 1) : total_le(front[i].rank, x.rank)})
         IN  SubSeq(front, 1, k) \o <<x>> \o SubSeq(front, k + 1, n - 1)

\* lines 201-202: sort ascending, then reverse.
ranked(tfi_map, order, body, nan_sign) ==
    Reverse(sort_by(score_all(tfi_map, order, body, nan_sign)))

\* ------------------------------------------------------------- the codec
\* A path is a sequence of file names; a file name is [n, dot, utf8]: its
\* number among the directory entries read, whether it starts with '.', and
\* whether its bytes are valid UTF-8.
\* The index file is whether it exists and the sequence of JSON items
\* written to it: "{", one item per document, "}".

Name(n, dot, utf8) == [n |-> n, dot |-> dot, utf8 |-> utf8]

OpenBrace == [t |-> "{", key |-> <<>>, val |-> {}]

CloseBrace == [t |-> "}", key |-> <<>>, val |-> {}]

Member(key, val) == [t |-> "member", key |-> key, val |-> val]

NoIndexFile == [exists |-> FALSE, items |-> <<>>]

IndexFile(items) == [exists |-> TRUE, items |-> items]

\* serde's Serialize for Path: Path::to_str, None for a path that is not UTF-8.
to_str(path) ==
    IF \A i \in DOMAIN path : path[i].utf8
    THEN [ok |-> TRUE, str |-> [i \in DOMAIN path |-> <<path[i].n, path[i].dot>>]]
    ELSE [ok |-> FALSE, str |-> <<>>]

\* serde's Deserialize for PathBuf: PathBuf::from(String).
from_str(str) == [i \in DOMAIN str |-> Name(str[i][1], str[i][2], TRUE)]

\* escape that leaves backslashes as they are.
RECURSIVE escape_quotes_only(_)
escape_quotes_only(term) ==
    IF term = <<>> THEN <<>>
    ELSE (IF Head(term) = "\"" THEN <<"\\", Head(term)>> ELSE <<Head(term)>>)
             \o escape_quotes_only(Tail(term))

\* A JSON string literal's body: '"' and '\' are written behind a backslash.
RECURSIVE escape(_)
escape(term) ==
    IF term = <<>> THEN <<>>
    ELSE (IF Head(term) \in {"\"", "\\"} THEN <<"\\", Head(term)>> ELSE <<Head(term)>>)
             \o escape(Tail(term))

\* The string a JSON string literal's body stands for; not ok when a
\* backslash ends it.
RECURSIVE unescape(_)
unescape(lit) ==
    IF lit = <<>> THEN Ok(<<>>)
    ELSE IF Head(lit) = "\\"
         THEN IF Len(lit) < 2 THEN Err
              ELSE LET rest == unescape(SubSeq(lit, 3, Len(lit)))
                   IN  IF rest.ok THEN Ok(<<lit[2]>> \o rest.content) ELSE Err
         ELSE LET rest == unescape(Tail(lit))
              IN  IF rest.ok THEN Ok(<<Head(lit)>> \o rest.content) ELSE Err

\* A usize as its decimal digits, and back.
RECURSIVE itoa(_)
itoa(n) == IF n < 10 THEN <<n>> ELSE itoa(n \div 10) \o <<n % 10>>

RECURSIVE atoi(_)
atoi(digits) ==
    IF Len(digits) = 1 THEN digits[1]
    ELSE 10 * atoi(SubSeq(digits, 1, Len(digits) - 1)) + digits[Len(digits)]

\* The JSON object of one TF table: its members, as (literal, digits) pairs.
serialize_tf(tf_table) ==
    {<<escape(t), itoa(tf_table[t])>> : t \in DOMAIN tf_table}

\* line 116: serde_json::to_writer_pretty(index_file, &tfi).  The items are
\* written straight to the file, one document after the other in the map's
\* iteration order; a path that is not UTF-8 ends the serialization with an
\* error, after the items before it were written.
RECURSIVE serialize_members(_, _)
serialize_members(tfi_map, order) ==
    IF order = <<>> THEN [ok |-> TRUE, items |-> <<>>]
    ELSE LET key == to_str(Head(order))
             rest == serialize_members(tfi_map, Tail(order))
         IN  IF ~key.ok THEN [ok |-> FALSE, items |-> <<>>]
             ELSE [ok |-> rest.ok,
                   items |-> <<Member(key.str, serialize_tf(tfi_map[Head(order)]))>>
                                \o rest.items]

to_writer_pretty(tfi_map, order) ==
    LET members == serialize_members(tfi_map, order)
    IN  IF members.ok
        THEN [ok |-> TRUE, items |-> <<OpenBrace>> \o members.items \o <<CloseBrace>>]
        ELSE [ok |-> FALSE, items |-> <<OpenBrace>> \o members.items]

\* The TF table of one JSON object; not ok when a literal is malformed.
deserialize_tf(val) ==
    IF \E m \in val : ~unescape(m[1]).ok THEN [ok |-> FALSE, tf |-> <<>>]
    ELSE [ok |-> TRUE,
          tf |-> [t \in {unescape(m[1]).content : m \in val} |->
                    atoi((CHOOSE m \in val : unescape(m[1]).content = t)[2])]]

RECURSIVE deserialize_members(_, _)
deserialize_members(items, tfi_map) ==
    IF items = <<>> THEN [ok |-> TRUE, tfi |-> tfi_map]
    ELSE LET table == deserialize_tf(Head(items).val)
         IN  IF Head(items).t # "member" \/ ~table.ok THEN [ok |-> FALSE, tfi |-> <<>>]
             ELSE deserialize_members(Tail(items),
                      insert(tfi_map, from_str(Head(items).key), table.tf))

\* lines 129, 263: serde_json::from_reader::<TFI>.  The whole stream must be
\* one object: "{", members, "}" and nothing else.
from_reader(items) ==
    IF Len(items) < 2 \/ items[1] # OpenBrace \/ items[Len(items)] # CloseBrace
    THEN [ok |-> FALSE, tfi |-> <<>>]
    ELSE deserialize_members(SubSeq(items, 2, Len(items) - 1), <<>>)

\* ------------------------------------------------------------- the state

VARIABLES
    pc,          \* where the index subcommand is
    stack,       \* the directories tfi_folder is in, innermost last
    entries,     \* directory entries read so far
    tfi,         \* the index being built
    cur,         \* path of the file being tokenized
    tokens,      \* what the lexer has yet to yield for it
    newtf,       \* its TF table under construction (tf at line 91)
    file,        \* index.json
    stderr,      \* the error the subcommand ended with
    checked,     \* what check_index found
    extraction,  \* history: the files parse_xml_file was called on, and how it ended
    emitted,     \* history: per file, the terms the lexer has yielded
    iter_order,     \* serve: the iteration order of the loaded index
    incoming,    \* serve: the requests that arrived and wait to be handled
    arrived,     \* serve: how many requests arrived so far
    handled,     \* serve history: the requests handled, and how each ended
    body,        \* serve: the body of the last search request
    result       \* serve: the result vector of the last search request

vars == <<pc, stack, entries, tfi, cur, tokens, newtf, file, stderr, checked,
          extraction, emitted, iter_order, incoming, arrived, handled, body, result>>

\* What the index and search subcommands leave alone.
serve_vars == <<iter_order, incoming, arrived, handled, body, result>>

\* What the serve subcommand leaves alone.
index_vars == <<stack, entries, cur, tokens, newtf, checked, extraction, emitted>>

ServeIdle ==
    /\ iter_order = <<>>
    /\ incoming = <<>>
    /\ arrived = 0
    /\ handled = <<>>
    /\ body = <<>>
    /\ result = <<>>

NotChecked == [run |-> FALSE, ok |-> FALSE, tfi |-> <<>>]

\* An index file left by an earlier run: one document holding the term "A".
OldIndexFile ==
    IndexFile(<<OpenBrace, Member(<<<<0, FALSE>>>>, {<<<<"A">>, <<1>>>>}), CloseBrace>>)

IndexInit ==
    /\ ServeIdle
    /\ pc = "index"
    /\ stack = <<>>
    /\ entries = 0
    /\ tfi = <<>>
    /\ cur = <<>>
    /\ tokens = <<>>
    /\ newtf = <<>>
    /\ file \in {NoIndexFile, OldIndexFile}
    /\ stderr = "none"
    /\ checked = NotChecked
    /\ extraction = <<>>
    /\ emitted = <<>>

\* ------------------------------------------------------------- tfi_folder

fail(message) ==
    /\ pc' = "failure"
    /\ stderr' = message
    /\ UNCHANGED <<stack, entries, tfi, cur, tokens, newtf, file, checked,
                   extraction, emitted>>
    /\ UNCHANGED serve_vars

\* lines 241-242, 45-50: fs::read_dir of the folder given on the command line.
ReadDir ==
    /\ pc = "index"
    /\ \/ fail("could not open directory")
       \/ /\ pc' = "walk"
          /\ stack' = <<(<<>>)>>
          /\ UNCHANGED <<entries, tfi, cur, tokens, newtf, file, stderr, checked,
                         extraction, emitted>>
          /\ UNCHANGED serve_vars

in_dir == pc = "walk" /\ stack # <<>>

more_entries == in_dir /\ entries < MaxEntries

\* lines 52, 107: the directory has no more entries; tfi_folder returns
\* Ok(()) to the tfi_folder that called it, or to entry (line 243).
EndOfDir ==
    /\ in_dir
    /\ stack' = SubSeq(stack, 1, Len(stack) - 1)
    /\ pc' = IF Len(stack) = 1 THEN "save" ELSE "walk"
    /\ UNCHANGED <<entries, tfi, cur, tokens, newtf, file, stderr, checked,
                   extraction, emitted>>
    /\ UNCHANGED serve_vars

\* lines 53-58: the directory iterator yields an error.
EntryError ==
    /\ more_entries
    /\ fail("could not read next file in directory")

\* lines 62-70: a name that starts with '.', file or directory, is passed over.
DotFile ==
    /\ more_entries
    /\ entries' = entries + 1
    /\ UNCHANGED <<pc, stack, tfi, cur, tokens, newtf, file, stderr, checked,
                   extraction, emitted>>
    /\ UNCHANGED serve_vars

\* lines 72-77: the type of the entry cannot be determined.
FileTypeError ==
    /\ more_entries
    /\ fail("could not determine type of file")

\* lines 79-82, 45-50: a directory; tfi_folder calls itself, and the error
\* of its read_dir ends every tfi_folder on the stack.
SubDir ==
    /\ more_entries
    /\ Len(stack) <= MaxDepth
    /\ \E utf8 \in BOOLEAN :
         LET dir == stack[Len(stack)] \o <<Name(entries + 1, FALSE, utf8)>>
         IN  \/ fail("could not open directory")
             \/ /\ stack' = Append(stack, dir)
                /\ entries' = entries + 1
                /\ UNCHANGED <<pc, tfi, cur, tokens, newtf, file, stderr, checked,
                               extraction, emitted>>
                /\ UNCHANGED serve_vars

\* lines 84-91: a file; its text is extracted, and a file whose extraction
\* fails is passed over.
ParseFile ==
    /\ more_entries
    /\ \E utf8 \in BOOLEAN, xml \in XmlFiles :
         LET file_path == stack[Len(stack)] \o <<Name(entries + 1, FALSE, utf8)>>
             content == parse_xml_file(xml)
         IN  /\ entries' = entries + 1
             /\ extraction' = Append(extraction, [path |-> file_path, ok |-> content.ok])
             /\ IF content.ok
                THEN /\ pc' = "lex"
                     /\ cur' = file_path
                     /\ tokens' = Lexer(content.content)
                     /\ newtf' = <<>>
                     /\ emitted' = insert(emitted, file_path, <<>>)
                     /\ tfi' = tfi
                ELSE /\ tfi' = skip_file(tfi, file_path)
                     /\ UNCHANGED <<pc, cur, tokens, newtf, emitted>>
             /\ UNCHANGED <<stack, file, stderr, checked>>
             /\ UNCHANGED serve_vars

\* lines 93-99: the lexer yields one more term.
NextToken ==
    /\ pc = "lex"
    /\ tokens # <<>>
    /\ newtf' = count_term(newtf, Head(tokens))
    /\ tokens' = Tail(tokens)
    /\ emitted' = [emitted EXCEPT ![cur] = Append(@, Head(tokens))]
    /\ UNCHANGED <<pc, stack, entries, tfi, cur, file, stderr, checked, extraction>>
    /\ UNCHANGED serve_vars

\* lines 93, 100-104: the lexer is exhausted; the table goes into the index.
InsertTf ==
    /\ pc = "lex"
    /\ tokens = <<>>
    /\ tfi' = insert(tfi, cur, newtf)
    /\ pc' = "walk"
    /\ newtf' = <<>>
    /\ cur' = <<>>
    /\ UNCHANGED <<stack, entries, tokens, file, stderr, checked, extraction, emitted>>
    /\ UNCHANGED serve_vars

\* ---------------------------------------------------------------- save_tfi

\* lines 110-121.  File::create truncates index.json; to_writer_pretty then
\* writes to it item by item, in the iteration order of the map.  A write
\* can fail after any number of items; a path that is not UTF-8 fails the
\* serialization.
save_tfi ==
    /\ pc = "save"
    /\ \E order \in Perms(DOMAIN tfi) :
         LET json == to_writer_pretty(tfi, order)
         IN  \/ /\ file' = file
                /\ pc' = "failure"
                /\ stderr' = "could not create index file"
             \/ \E written \in 0..(Len(json.items) - 1) :
                  /\ file' = IndexFile(SubSeq(json.items, 1, written))
                  /\ pc' = "failure"
                  /\ stderr' = "could not serialize index into file"
             \/ /\ ~json.ok
                /\ file' = IndexFile(json.items)
                /\ pc' = "failure"
                /\ stderr' = "could not serialize index into file"
             \/ /\ json.ok
                /\ file' = IndexFile(json.items)
                /\ pc' = "success"
                /\ stderr' = "none"
    /\ UNCHANGED <<stack, entries, tfi, cur, tokens, newtf, checked, extraction, emitted>>
    /\ UNCHANGED serve_vars

\* -------------------------------------------------------------- check_index

\* lines 123-135, the search subcommand run once the index subcommand has
\* ended: open the index file, parse it, count its documents.
check_index ==
    /\ pc \in {"success", "failure"}
    /\ ~checked.run
    /\ checked' = IF ~file.exists THEN [run |-> TRUE, ok |-> FALSE, tfi |-> <<>>]
                  ELSE [run |-> TRUE] @@ from_reader(file.items)
    /\ UNCHANGED <<pc, stack, entries, tfi, cur, tokens, newtf, file, stderr,
                   extraction, emitted>>
    /\ UNCHANGED serve_vars

IndexNext ==
    \/ ReadDir
    \/ EndOfDir
    \/ EntryError
    \/ DotFile
    \/ FileTypeError
    \/ SubDir
    \/ ParseFile
    \/ NextToken
    \/ InsertTf
    \/ save_tfi
    \/ check_index

Spec == IndexInit /\ [][IndexNext]_vars

\* -------------------------------------------------------- entry: serve

DocPaths == {<<Name(i, FALSE, TRUE)>> : i \in 1..MaxDocs}

ServeTexts == {TheCatSat, TheDogRan, The, <<>>}

Corpora == UNION {[D -> ServeTexts] : D \in SUBSET DocPaths}

\* lines 91-104 for every document of a corpus: the index of the corpus.
build_index(corpus) ==
    [p \in DOMAIN corpus |-> count_terms(<<>>, Lexer(corpus[p]))]

\* The index file save_tfi writes for an index, and what is left of it
\* when the last write did not happen.
saved(tfi_map) ==
    to_writer_pretty(tfi_map, CHOOSE o \in Perms(DOMAIN tfi_map) : TRUE).items

truncated(items) == SubSeq(items, 1, Len(items) - 1)

ServeFiles ==
    {NoIndexFile}
        \cup {IndexFile(saved(build_index(c))) : c \in Corpora}
        \cup {IndexFile(truncated(saved(build_index(c)))) : c \in Corpora}

Cat == <<"c","a","t">>

Utf8(text) == [utf8 |-> TRUE, text |-> text]

NotUtf8 == [utf8 |-> FALSE, text |-> <<>>]

NoBody == Utf8(<<>>)

Requests ==
    {[method |-> "POST", url |-> "/api/search", body |-> b] :
        b \in {Utf8(Cat), Utf8(The), NotUtf8}}
        \cup {[method |-> "GET", url |-> u, body |-> NoBody] :
                u \in {"/index.js", "/", "/api/search"}}

ServeInit ==
    /\ ServeIdle
    /\ pc = "serve"
    /\ file \in ServeFiles
    /\ tfi = <<>>
    /\ stderr = "none"
    /\ stack = <<>>
    /\ entries = 0
    /\ cur = <<>>
    /\ tokens = <<>>
    /\ newtf = <<>>
    /\ checked = NotChecked
    /\ extraction = <<>>
    /\ emitted = <<>>

\* open_and_parse with an index that cannot be read taken as empty
\* (unwrap_or_default in place of the two `?`).
open_or_default(index_file) ==
    IF index_file.exists /\ from_reader(index_file.items).ok
    THEN [ok |-> TRUE, tfi |-> from_reader(index_file.items).tfi, err |-> "none"]
    ELSE [ok |-> TRUE, tfi |-> <<>>, err |-> "none"]

\* lines 259-265: File::open and serde_json::from_reader, each error
\* mapped to Err(()).
open_and_parse(index_file) ==
    IF ~index_file.exists THEN [ok |-> FALSE, tfi |-> <<>>, err |-> "could not open index file"]
    ELSE LET parsed == from_reader(index_file.items)
         IN  IF parsed.ok THEN [ok |-> TRUE, tfi |-> parsed.tfi, err |-> "none"]
             ELSE [ok |-> FALSE, tfi |-> <<>>, err |-> "could not parse index file"]

\* lines 259-265: the index is loaded, or entry returns Err(()).
LoadIndex ==
    /\ pc = "serve"
    /\ LET loaded == open_and_parse(file)
       IN  IF loaded.ok
           THEN /\ tfi' = loaded.tfi
                /\ iter_order' \in Perms(DOMAIN loaded.tfi)
                /\ pc' = "bind"
                /\ stderr' = stderr
           ELSE /\ pc' = "failure"
                /\ stderr' = loaded.err
                /\ UNCHANGED <<tfi, iter_order>>
    /\ UNCHANGED <<file, incoming, arrived, handled, body, result>>
    /\ UNCHANGED index_vars

\* lines 267-272: Server::http(address).
StartServer ==
    /\ pc = "bind"
    /\ \/ /\ pc' = "listening"
          /\ stderr' = stderr
       \/ /\ pc' = "failure"
          /\ stderr' = "could not start HTTP server"
    /\ UNCHANGED <<tfi, file, iter_order, incoming, arrived, handled, body, result>>
    /\ UNCHANGED index_vars

\* A client sends a request; the server queues it for incoming_requests().
Arrive ==
    /\ pc = "listening"
    /\ arrived < MaxRequests
    /\ \E r \in Requests :
         incoming' = Append(incoming, [id |-> arrived + 1] @@ r)
    /\ arrived' = arrived + 1
    /\ UNCHANGED <<pc, tfi, file, stderr, iter_order, handled, body, result>>
    /\ UNCHANGED index_vars

\* propagate with the result of serve_request dropped: the loop goes on.
ignore_error(err) == "listening"

\* line 275: serve_request(&tfi, request)? : an Err(()) ends the loop and entry.
propagate(err) == IF err = "none" THEN "listening" ELSE "failure"

\* How the handling of a request ends.
returns(request, err) ==
    /\ handled' = Append(handled, [id |-> request.id, ok |-> err = "none"])
    /\ pc' = propagate(err)
    /\ stderr' = err

\* request.respond(..): the response is written, or the write fails.
respond(request, err) ==
    \/ returns(request, "none")
    \/ returns(request, err)

\* lines 184-211: POST /api/search.
search(request) ==
    IF ~request.body.utf8
    THEN /\ returns(request, "could not interpret body as UTF-8 string")
         /\ UNCHANGED <<body, result>>
    ELSE /\ body' = request.body.text
         \* the sign bit of the NaNs of this request is either one
         /\ \E nan_sign \in {1, -1} :
              result' = ranked(tfi, iter_order, request.body.text, nan_sign)
         /\ respond(request, "ERROR")

\* lines 153-162.
serve_static_file(request) ==
    /\ \/ returns(request, "could not serve file")
       \/ respond(request, "could not serve a request")
    /\ UNCHANGED <<body, result>>

\* lines 147-151.
serve_404(request) ==
    /\ respond(request, "could not serve a request")
    /\ UNCHANGED <<body, result>>

\* lines 274-276, 177-223: the next request is taken and handled.
serve_request ==
    /\ pc = "listening"
    /\ incoming # <<>>
    /\ incoming' = Tail(incoming)
    /\ LET request == Head(incoming)
       IN  IF request.method = "POST" /\ request.url = "/api/search"
           THEN search(request)
           ELSE IF request.method = "GET"
                     /\ request.url \in {"/index.js", "/", "/index.html"}
           THEN serve_static_file(request)
           ELSE serve_404(request)
    /\ UNCHANGED <<tfi, file, iter_order, arrived>>
    /\ UNCHANGED index_vars

ServeNext ==
    \/ LoadIndex
    \/ StartServer
    \/ Arrive
    \/ serve_request

SpecServe == ServeInit /\ [][ServeNext]_vars

\* ------------------------------------------------------------- properties

Doc1 == <<Name(1, FALSE, TRUE)>>

Doc2 == <<Name(2, FALSE, TRUE)>>

CatDogIndex == build_index(Doc1 :> TheCatSat @@ Doc2 :> TheDogRan)

\* A search request has been handled (every query of Requests has text).
searched == body # <<>>

position(path) == CHOOSE i \in DOMAIN result : result[i].path = path

rank_of(path) == result[position(path)].rank

\* C1: on the index of doc1 = "the cat sat" and doc2 = "the dog ran", the
\* query "cat" gives doc1 a nonzero rank, strictly greater than doc2's rank
\* of 0.0, and lists doc1 before doc2.
C1_CatRanksDoc1AboveDoc2 ==
    (tfi = CatDogIndex /\ body = Cat) =>
        /\ ~f32_eq(rank_of(Doc1), Zero)
        /\ f32_eq(rank_of(Doc2), Zero)
        /\ f32_gt(rank_of(Doc1), rank_of(Doc2))
        /\ position(Doc1) < position(Doc2)

\* C2: a save_tfi that fails leaves index.json as it was before the call:
\* not created, not truncated, not partly written.
C2_FailedSaveLeavesFileUntouched ==
    [][(pc = "save" /\ pc' = "failure") => file' = file]_vars

\* C3: a document with an empty TF table has rank 0.0 for every query.
C3_EmptyTableScoresZero ==
    \A i \in DOMAIN result :
        DOMAIN tfi[result[i].path] = {} => f32_eq(result[i].rank, Zero)

ok_paths == {extraction[i].path : i \in {j \in DOMAIN extraction : extraction[j].ok}}

failed_paths == {extraction[i].path : i \in {j \in DOMAIN extraction : ~extraction[j].ok}}

C4_Keys ==
    /\ failed_paths \cap DOMAIN tfi = {}
    /\ DOMAIN tfi \cup (IF pc = "lex" THEN {cur} ELSE {}) = ok_paths
    /\ \A p \in DOMAIN tfi : \A i \in DOMAIN p : ~p[i].dot

C4_Continue ==
    (/\ Len(extraction') = Len(extraction) + 1
     /\ ~extraction'[Len(extraction')].ok)
        => (pc' = "walk" /\ stack' = stack /\ tfi' = tfi)

C6_ResultIndependentOfOrder ==
    (searched /\ \A p \in DOMAIN tfi : DOMAIN tfi[p] # {}) =>
        \A o \in Perms(DOMAIN tfi) : ranked(tfi, o, body, 1) = result

\* C7: the server is started, and requests arrive and are scored, only with
\* the index that the whole index file decodes to; with a file that cannot be
\* opened or parsed the subcommand ends before the server is started.
C7_DecodeFailureIsFatal ==
    LET parsed == IF file.exists THEN from_reader(file.items)
                  ELSE [ok |-> FALSE, tfi |-> <<>>]
    IN  IF parsed.ok
        THEN pc # "serve" => tfi = parsed.tfi
        ELSE /\ pc \in {"serve", "failure"}
             /\ arrived = 0
             /\ handled = <<>>
             /\ result = <<>>
             /\ ~searched

C7_Witness ==
    /\ file.exists
    /\ ~from_reader(file.items).ok
    /\ pc = "failure"
    /\ stderr = "could not parse index file"

\* C8: the result of a search holds exactly one pair per document of the
\* index, each rank greater than or equal to the rank after it.
C8_FullRankedDescending ==
    searched =>
        /\ Len(result) = Cardinality(DOMAIN tfi)
        /\ {result[i].path : i \in DOMAIN result} = DOMAIN tfi
        /\ \A i \in 1..(Len(result) - 1) : f32_ge(result[i].rank, result[i + 1].rank)

counts_emitted(tf_table, terms) ==
    /\ DOMAIN tf_table = Range(terms)
    /\ \A t \in DOMAIN tf_table : tf_table[t] = occurrences(terms, t)

\* C9: during the build every TF table, the one under construction
\* included, holds only counts >= 1, and the count of a term is the number
\* of times the lexer has yielded it for that file.
C9_CountsPositiveAndExact ==
    /\ \A t \in DOMAIN newtf : newtf[t] >= 1
    /\ \A p \in DOMAIN tfi : \A t \in DOMAIN tfi[p] : tfi[p][t] >= 1
    /\ pc = "lex" => counts_emitted(newtf, emitted[cur])
    /\ \A p \in DOMAIN tfi : counts_emitted(tfi[p], emitted[p])

C9_Witness ==
    /\ pc = "lex"
    /\ \E t \in DOMAIN newtf : newtf[t] = 2
    /\ \E p \in DOMAIN tfi : \E t \in DOMAIN tfi[p] : tfi[p][t] = 2

C10_InOrder ==
    /\ \A i \in DOMAIN handled : handled[i].id = i
    /\ \A i \in DOMAIN incoming : incoming[i].id = Len(handled) + i
    /\ \A i \in DOMAIN handled :
         ~handled[i].ok => (i = Len(handled) /\ pc = "failure")

C10_Stops ==
    /\ pc = "failure" => handled' = handled
    /\ pc \in {"listening", "failure"} => (tfi' = tfi /\ iter_order' = iter_order)

\* C10: requests are handled one at a time in the order they arrived; the
\* first request whose handling returns an error is the last one handled
\* and ends the subcommand with a failure; no request changes the index.
C10_StopsAtFirstError == []C10_InOrder /\ [][C10_Stops]_vars

C10_Witness ==
    /\ pc = "failure"
    /\ handled # <<>>
    /\ ~handled[Len(handled)].ok
    /\ incoming # <<>>

====
